---- MODULE Spec2Model ----
(***************************************************************************)
(* Request orchestration of the customer-support agent runtime             *)
(* (src/runtime/app.py) with its memory manager                            *)
(* (src/agent/memory_hooks.py) and gateway configuration                    *)
(* (src/agent/gateway_client.py).                                           *)
(*                                                                         *)
(* Text is a sequence of tokens: Python's str + str is \o, the empty        *)
(* string is <<>>, and a falsy string is one of length 0.                   *)
(*                                                                         *)
(* The model backend (claude_agent_sdk.query), the memory service           *)
(* (MemoryClient) and the gateway control plane are external: each of       *)
(* their answers is a nondeterministic choice from a small set.             *)
(***************************************************************************)
EXTENDS Integers, Sequences, FiniteSets, TLC

\* ------------------------------------------------------------------ bounds

\* The most content messages one backend run produces in the model.
MaxFragments == 2

\* The turn counter of the backend is never driven past this cap; the cap is
\* above the configured budget, so the budget is what stops the loop.
TurnCap == 12

\* ------------------------------------------------------------- vocabulary

Requests == {"r1", "r2"}

None == "None"

\* Fragments of assistant text the backend produces.
Chunks == {"a", "b"}

\* Texts a terminal result message carries (possibly empty).
ResultTexts == {<<>>, <<"a">>, <<"a", "b">>}

\* The JSON bodies and Authorization headers a client sends as request r.
\* keys is the set of keys the body carries: the prompt is absent, empty or
\* a query; the ids are absent or the client's own; stream is absent (False)
\* or true; the Authorization header is absent ("") or a bearer credential.
Bodies(r) ==
    { [keys |-> {}, prompt |-> <<>>, actor_id |-> None,
       session_id |-> None, stream |-> FALSE, auth |-> <<>>],
      [keys |-> {"prompt"}, prompt |-> <<>>, actor_id |-> None,
       session_id |-> None, stream |-> TRUE,
       auth |-> <<"Bearer ", "tok-" \o r>>] }
    \cup
    { [keys |-> {"prompt"} \cup ids, prompt |-> <<"q">>,
       actor_id |-> IF ids = {} THEN None ELSE "actor-" \o r,
       session_id |-> IF ids = {} THEN None ELSE "session-" \o r,
       stream |-> st, auth |-> au] :
        ids \in {{}, {"actor_id", "session_id"}},
        st \in BOOLEAN,
        au \in {<<>>, <<"Bearer ", "tok-" \o r>>} }

NoBody ==
    [keys |-> {}, prompt |-> <<>>, actor_id |-> None, session_id |-> None,
     stream |-> FALSE, auth |-> <<>>]

\* dict.get(key, default) on the request body (app.py 78-81).
Get(b, key, default) == IF key \in b.keys THEN b[key] ELSE default

\* A Python value used as a condition: an empty string is falsy.
Truthy(text) == Len(text) > 0

VARIABLES
    MEMORY_ID,        \* module-level memory id, or None (app.py 48-54)
    pc,               \* each request's position in its handler
    body,             \* each request's JSON body and Authorization header
    mcp_servers,      \* each request's MCP server configuration
    memory_manager,   \* each request's memory manager, or None
    enhanced_prompt,  \* the prompt handed to the backend
    turns,            \* model round-trips of the request's backend run
    terminal,         \* how the backend run ended, or "none"
    produced,         \* content chunks the backend produced so far
    result,           \* the terminal result text of the backend run
    response_text,    \* the handler's local response_text
    emitted,          \* the SSE events generate() has yielded
    response,         \* the HTTP response returned by invocations()
    log,              \* the request's side effects, in order
    retrieval,        \* what the memory service did during retrieve_context
    store,            \* the memory service's saved interaction events
    save_state,       \* outcome of the request's create_event call
    generator,        \* where the request's generate() generator stands
    loop,             \* the event loop generate() creates for the request
    tool,             \* the tool call the MCP server is handling
    frontend,         \* the chat page: its message history and built context
    health,           \* the last answer of the health check
    save_call,        \* the last direct call of save_interaction
    context_call      \* the last direct call of retrieve_context

vars == <<MEMORY_ID, pc, body, mcp_servers, memory_manager, enhanced_prompt,
          turns, terminal, produced, result, response_text, emitted,
          response, log, retrieval, store, save_state, generator, loop,
          tool, frontend, health, save_call, context_call>>

\* ---------------------------------------------------------------- values

\* The in-process MCP server, built once at import (app.py 45,
\* mcp_server.py 14-18).
sdk_server ==
    [name |-> "customer-support", type |-> "sdk", token |-> <<>>]

\* memory_manager = None (app.py 104).
NoManager ==
    [present |-> FALSE, memory_id |-> None, actor_id |-> None,
     session_id |-> None]

\* No response returned yet.
NoResponse ==
    [status |-> 0, fields |-> {}, message |-> <<>>, error |-> "none"]

\* Fault model: the status is left off the return, so Flask answers 200.
ErrorResponseDefaultStatus(status, e) ==
    [status |-> 200, fields |-> {"error"}, message |-> <<>>, error |-> e]

\* jsonify({"error": e}), status (app.py 84, 136).
ErrorResponse(status, e) ==
    [status |-> status, fields |-> {"error"}, message |-> <<>>, error |-> e]

\* jsonify({"message": text}) with Flask's default status (app.py 158).
MessageResponse(text) ==
    [status |-> 200, fields |-> {"message"}, message |-> text,
     error |-> "none"]

\* Response(generate(), mimetype="text/event-stream") (app.py 200).
StreamResponse ==
    [status |-> 200, fields |-> {"stream"}, message |-> <<>>,
     error |-> "none"]

\* retrieve_context was not called.
NoRetrieval ==
    [called |-> FALSE, raised |-> FALSE, snippets |-> 0, queries |-> <<>>,
     context |-> <<>>]

\* What a tool call answers: a text content block, or an exception that
\* leaves the handler or the catalog.
TextContent(text) == [raised |-> "none", type |-> "text", text |-> text]

Raises(exception) == [raised |-> exception, type |-> "none", text |-> <<>>]

NoReply == [raised |-> "none", type |-> "none", text |-> <<>>]

\* The arguments of a tool call, a JSON object: the keys it has and the
\* value under each; a value is a string with its text or an integer.
String(text) == [type |-> "string", text |-> text]

Integer == [type |-> "integer", text |-> <<>>]

Absent == [type |-> "absent", text |-> <<>>]

ArgNames ==
    {"product_category", "product_type", "keywords", "region",
     "max_results", "issue_description"}

Args(pairs) ==
    [keys |-> {p[1] : p \in pairs},
     val |-> [k \in ArgNames |->
                IF \E p \in pairs : p[1] = k
                THEN (CHOOSE p \in pairs : p[1] = k)[2]
                ELSE Absent]]

\* No tool call is being handled.
NoToolCall ==
    [phase |-> "idle", name |-> "none", args |-> Args({}),
     failure |-> "none", reply |-> NoReply]

\* The chat page before any message: st.session_state.messages is empty
\* and no context was built.
NoContext ==
    [messages |-> <<>>, context_window |-> 0, context |-> <<>>,
     built |-> FALSE]

\* No health check was answered.
NoProbe == [status |-> 0, body |-> {}, during |-> "none"]

\* save_interaction was not called directly.
NoSaveCall ==
    [called |-> FALSE, user_query |-> <<>>, agent_response |-> <<>>,
     before |-> 0, store_called |-> FALSE, store_raised |-> FALSE,
     raised |-> FALSE]

\* retrieve_context was not called directly.
NoContextCall ==
    [called |-> FALSE, actor_id |-> None, query_text |-> <<>>,
     answers |-> <<>>, queries |-> <<>>, context |-> <<>>]

\* ------------------------------------------------------------------ Init

Init ==
    /\ MEMORY_ID \in {None, "mem-1"}
    /\ pc = [r \in Requests |-> "idle"]
    /\ body = [r \in Requests |-> NoBody]
    /\ mcp_servers = [r \in Requests |-> {}]
    /\ memory_manager = [r \in Requests |-> NoManager]
    /\ enhanced_prompt = [r \in Requests |-> <<>>]
    /\ turns = [r \in Requests |-> 0]
    /\ terminal = [r \in Requests |-> "none"]
    /\ produced = [r \in Requests |-> <<>>]
    /\ result = [r \in Requests |-> <<>>]
    /\ response_text = [r \in Requests |-> <<>>]
    /\ emitted = [r \in Requests |-> <<>>]
    /\ response = [r \in Requests |-> NoResponse]
    /\ log = [r \in Requests |-> <<>>]
    /\ retrieval = [r \in Requests |-> NoRetrieval]
    /\ store = <<>>
    /\ save_state = [r \in Requests |-> "none"]
    /\ generator = [r \in Requests |-> "none"]
    /\ loop = [r \in Requests |-> "none"]
    /\ tool = NoToolCall
    /\ frontend = NoContext
    /\ health = NoProbe
    /\ save_call = NoSaveCall
    /\ context_call = NoContextCall

\* ----------------------------------------------------- request validation

user_input(r) == Get(body[r], "prompt", <<>>)

actor_id(r) == Get(body[r], "actor_id", "default_customer")

\* str(uuid.uuid4()): an identifier no other request has.
session_id(r) == Get(body[r], "session_id", "uuid-" \o r)

stream(r) == body[r].stream

auth_header(r) == body[r].auth

\* Fault model: only an absent prompt is rejected, an empty one passes.
NoPromptKeyOnly(b) == "prompt" \notin b.keys

\* "if not user_input" (app.py 78, 83).
NoPrompt(b) == ~Truthy(Get(b, "prompt", <<>>))

\* invocations(), lines 76-84: read the body; an absent or empty prompt is
\* answered 400 at once.
Receive(r) ==
    /\ pc[r] = "idle"
    /\ \E b \in Bodies(r) :
        /\ body' = [body EXCEPT ![r] = b]
        /\ IF NoPrompt(b)
           THEN /\ response' = [response EXCEPT
                        ![r] = ErrorResponse(400, "No prompt provided")]
                /\ pc' = [pc EXCEPT ![r] = "done"]
           ELSE /\ pc' = [pc EXCEPT ![r] = "gateway"]
                /\ UNCHANGED response
    /\ UNCHANGED <<frontend, health, save_call, context_call,
                   tool, generator, loop,
                   MEMORY_ID, mcp_servers, memory_manager, enhanced_prompt,
                   turns, terminal, produced, result, response_text,
                   emitted, log, retrieval, store, save_state>>

\* ---------------------------------------------------------------- gateway

\* str.replace(old, ""): every occurrence of the token is removed.
Replace(text, old) == SelectSeq(text, LAMBDA t : t # old)

\* Fault model: the gateway entry is resolved for the first caller and
\* handed to every later one.
get_gateway_mcp_config_cached(bearer_token) ==
    [name |-> "agentcore-gateway", type |-> "http",
     token |-> <<"Bearer ", "tok-r1">>]

\* get_gateway_mcp_config (gateway_client.py 33-59) once the gateway URL is
\* resolved: an HTTP server entry carrying the bearer token.
get_gateway_mcp_config(bearer_token) ==
    [name |-> "agentcore-gateway", type |-> "http",
     token |-> <<"Bearer ">> \o bearer_token]

\* Fault model: the gateway is resolved whether a credential came or not.
GatewayWantedAlways(header) == TRUE

\* "if auth_header:" (app.py 90): the gateway is resolved only for a
\* non-empty Authorization header.
GatewayWanted(header) == Truthy(header)

\* invocations(), lines 86-100: the in-process server always; the gateway
\* when an Authorization header came and resolving the gateway did not raise.
ConfigureGateway(r) ==
    /\ pc[r] = "gateway"
    /\ IF GatewayWanted(auth_header(r))
       THEN /\ log' = [log EXCEPT ![r] = Append(@, "gateway")]
            /\ \E raises \in BOOLEAN :
                mcp_servers' = [mcp_servers EXCEPT ![r] =
                    IF raises
                    THEN {sdk_server}
                    ELSE {sdk_server,
                          get_gateway_mcp_config(
                              Replace(auth_header(r), "Bearer "))}]
       ELSE /\ mcp_servers' = [mcp_servers EXCEPT ![r] = {sdk_server}]
            /\ UNCHANGED log
    /\ pc' = [pc EXCEPT ![r] = "memory"]
    /\ UNCHANGED <<frontend, health, save_call, context_call,
                   tool, generator, loop,
                   MEMORY_ID, body, memory_manager, enhanced_prompt, turns,
                   terminal, produced, result, response_text, emitted,
                   response, retrieval, store, save_state>>

\* ----------------------------------------------------------------- memory

\* The strategies of the memory resource, as get_memory_strategies lists
\* them (created by create_or_get_memory_resource, memory_hooks.py 40-55).
Strategies ==
    << [type |-> "user_preference",
        namespace |-> <<"support/customer/", "{actorId}", "/preferences">>],
       [type |-> "semantic",
        namespace |-> <<"support/customer/", "{actorId}", "/semantic">>] >>

\* str.upper() on the strategy types.
Upper(t) ==
    CASE t = "user_preference" -> "USER_PREFERENCE"
      [] t = "semantic" -> "SEMANTIC"
      [] OTHER -> t

\* namespace.format(actorId=actor).
Format(namespace, actor) ==
    [i \in DOMAIN namespace |->
        IF namespace[i] = "{actorId}" THEN actor ELSE namespace[i]]

IsSpace(t) == t = " "

\* str.strip(): leading and trailing whitespace removed.
RECURSIVE LStrip(_)
LStrip(text) ==
    IF text # <<>> /\ IsSpace(Head(text)) THEN LStrip(Tail(text)) ELSE text

RECURSIVE RStrip(_)
RStrip(text) ==
    IF text # <<>> /\ IsSpace(text[Len(text)])
    THEN RStrip(SubSeq(text, 1, Len(text) - 1))
    ELSE text

Strip(text) == RStrip(LStrip(text))

\* A record retrieve_memories returns: a dict or not, with a dict content or
\* not, carrying a text.
Memory(text) == [is_dict |-> TRUE, content_is_dict |-> TRUE, text |-> text]

MemoryLists ==
    { <<>>,
      <<Memory(<<" ", "m", " ">>)>>,
      <<Memory(<<" ">>)>>,
      <<[is_dict |-> FALSE, content_is_dict |-> FALSE, text |-> <<"x">>]>> }

\* What one retrieve_memories call does: it raises, or returns memories.
NamespaceOutcomes ==
    { [raises |-> TRUE, memories |-> <<>>] }
    \cup { [raises |-> FALSE, memories |-> ms] : ms \in MemoryLists }

\* CustomerSupportMemoryManager.__init__ (memory_hooks.py 100-110).
NewManager(memory_id, actor, session) ==
    [present |-> TRUE, memory_id |-> memory_id, actor_id |-> actor,
     session_id |-> session]

\* Fault model: a snippet is kept whatever its text, blank ones too.
RECURSIVE ContextLinesWithBlanks(_, _)
ContextLinesWithBlanks(context_type, memories) ==
    IF memories = <<>>
    THEN <<>>
    ELSE LET memory == Head(memories)
             text == Strip(memory.text)
         IN (IF memory.is_dict /\ memory.content_is_dict
             THEN << <<"[", Upper(context_type), "] ">> \o text >>
             ELSE <<>>)
            \o ContextLinesWithBlanks(context_type, Tail(memories))

\* The lines one namespace's memories add to all_context
\* (memory_hooks.py 131-137).
RECURSIVE ContextLines(_, _)
ContextLines(context_type, memories) ==
    IF memories = <<>>
    THEN <<>>
    ELSE LET memory == Head(memories)
             text == Strip(memory.text)
         IN (IF memory.is_dict /\ memory.content_is_dict /\ Truthy(text)
             THEN << <<"[", Upper(context_type), "] ">> \o text >>
             ELSE <<>>)
            \o ContextLines(context_type, Tail(memories))

\* "\n".join(lines).
RECURSIVE Join(_)
Join(lines) ==
    IF lines = <<>> THEN <<>>
    ELSE IF Len(lines) = 1 THEN Head(lines)
    ELSE Head(lines) \o <<"\n">> \o Join(Tail(lines))

\* The number of retrieve_memories calls retrieve_context issues: it stops
\* at the first call that raises.
RECURSIVE QueriesIssued(_)
QueriesIssued(outcomes) ==
    IF outcomes = <<>> THEN 0
    ELSE IF Head(outcomes).raises THEN 1
    ELSE 1 + QueriesIssued(Tail(outcomes))

RECURSIVE AllContext(_, _)
AllContext(namespaces, outcomes) ==
    IF namespaces = <<>>
    THEN <<>>
    ELSE ContextLines(Head(namespaces).type, Head(outcomes).memories)
         \o AllContext(Tail(namespaces), Tail(outcomes))

\* Fault model: a raise keeps the lines collected before it.
RECURSIVE ContextBeforeRaise(_, _)
ContextBeforeRaise(namespaces, outcomes) ==
    IF namespaces = <<>> \/ Head(outcomes).raises
    THEN <<>>
    ELSE ContextLines(Head(namespaces).type, Head(outcomes).memories)
         \o ContextBeforeRaise(Tail(namespaces), Tail(outcomes))

retrieve_context_partial(namespaces, outcomes) ==
    Join(ContextBeforeRaise(namespaces, outcomes))

\* retrieve_context (memory_hooks.py 112-147), given what each namespace's
\* retrieve_memories call does: a raise on any namespace discards what was
\* collected and returns "".
retrieve_context(namespaces, outcomes) ==
    IF \E i \in DOMAIN outcomes : outcomes[i].raises
    THEN <<>>
    ELSE Join(AllContext(namespaces, outcomes))

\* Fault model: the header is put in front whatever the context is.
EnhancedPromptAlways(context, text) ==
    <<"Customer Context:\n">> \o context \o <<"\n\n">> \o text

\* The f-string of app.py 116.
EnhancedPrompt(context, text) ==
    IF Truthy(context)
    THEN <<"Customer Context:\n">> \o context \o <<"\n\n">> \o text
    ELSE text

\* What the memory service did, for the record: whether a call raised, and
\* how many usable (dict, non-blank) snippets the calls before it returned.
Raised(outcomes) == \E i \in DOMAIN outcomes : outcomes[i].raises

Usable(memory) ==
    /\ memory.is_dict
    /\ memory.content_is_dict
    /\ \E i \in DOMAIN memory.text : ~IsSpace(memory.text[i])

RECURSIVE SnippetsBeforeRaise(_)
SnippetsBeforeRaise(outcomes) ==
    IF outcomes = <<>> \/ Head(outcomes).raises
    THEN 0
    ELSE Cardinality({i \in DOMAIN Head(outcomes).memories :
                        Usable(Head(outcomes).memories[i])})
         + SnippetsBeforeRaise(Tail(outcomes))

RetrieveLog(n) == [i \in 1..n |-> "retrieve"]

\* The number of memories each retrieve_memories call asks for
\* (memory_hooks.py 129).
top_k == 3

\* The retrieve_memories calls retrieve_context issues, in order
\* (memory_hooks.py 124-130): one per namespace of the manager, the
\* namespace formatted with the manager's actor id, up to and including the
\* first call that raises.
RECURSIVE Queries(_, _, _, _)
Queries(namespaces, actor, query_text, outcomes) ==
    IF namespaces = <<>>
    THEN <<>>
    ELSE << [namespace |-> Format(Head(namespaces).namespace, actor),
             query |-> query_text, top_k |-> top_k] >>
         \o (IF Head(outcomes).raises
             THEN <<>>
             ELSE Queries(Tail(namespaces), actor, query_text,
                          Tail(outcomes)))

\* invocations(), lines 102-118: with a memory id, build the manager (which
\* fetches the strategies) and retrieve the context; any raise leaves the
\* manager and the prompt as they were at that point.
RetrieveMemory(r) ==
    /\ pc[r] = "memory"
    /\ IF MEMORY_ID # None
       THEN \E strategies_raise \in BOOLEAN :
            \E outcomes \in [DOMAIN Strategies -> NamespaceOutcomes] :
                IF strategies_raise
                THEN /\ memory_manager' =
                            [memory_manager EXCEPT ![r] = NoManager]
                     /\ enhanced_prompt' =
                            [enhanced_prompt EXCEPT ![r] = user_input(r)]
                     /\ log' = [log EXCEPT ![r] = Append(@, "strategies")]
                     /\ UNCHANGED retrieval
                ELSE /\ memory_manager' = [memory_manager EXCEPT ![r] =
                            NewManager(MEMORY_ID, actor_id(r),
                                       session_id(r))]
                     /\ enhanced_prompt' = [enhanced_prompt EXCEPT ![r] =
                            EnhancedPrompt(
                                retrieve_context(Strategies, outcomes),
                                user_input(r))]
                     /\ log' = [log EXCEPT ![r] =
                            Append(@, "strategies")
                            \o RetrieveLog(QueriesIssued(outcomes))]
                     /\ retrieval' = [retrieval EXCEPT ![r] =
                            [called |-> TRUE,
                             raised |-> Raised(outcomes),
                             snippets |-> SnippetsBeforeRaise(outcomes),
                             queries |->
                                Queries(Strategies,
                                        memory_manager'[r].actor_id,
                                        user_input(r), outcomes),
                             context |->
                                retrieve_context(Strategies, outcomes)]]
       ELSE /\ memory_manager' = [memory_manager EXCEPT ![r] = NoManager]
            /\ enhanced_prompt' =
                    [enhanced_prompt EXCEPT ![r] = user_input(r)]
            /\ UNCHANGED <<log, retrieval>>
    /\ pc' = [pc EXCEPT ![r] = "invoke"]
    /\ UNCHANGED <<frontend, health, save_call, context_call,
                   tool, generator, loop,
                   MEMORY_ID, body, mcp_servers, turns, terminal, produced,
                   result, response_text, emitted, response, store,
                   save_state>>

\* ---------------------------------------------------------------- backend

\* Fault model: the options carry no usable turn limit.
max_turns_none == TurnCap + 1

\* ClaudeAgentOptions(max_turns=10) (app.py 126).
max_turns == 10

\* The backend's loop (spec section 4.4): another model round-trip is issued
\* only while the turn count is below the budget the options carry.
BudgetLeft(t) == t < max_turns /\ t < TurnCap

\* A message the backend yields: one with a content attribute, one with a
\* result attribute (the terminal result), or one with neither (a system
\* message, a tool-call request).
ContentMessage(c) == [kind |-> "content", text |-> <<c>>, ended |-> "none"]

OtherMessage == [kind |-> "other", text |-> <<>>, ended |-> "none"]

ResultMessage(t, how) == [kind |-> "result", text |-> t, ended |-> how]

\* What the backend may yield next for request r: while budget is left, a
\* round-trip giving text, a tool-call round or the final answer; once the
\* budget is exhausted, only the terminal result of the truncated run.
BackendMessages(r) ==
    IF BudgetLeft(turns[r])
    THEN { ContentMessage(c) :
             c \in IF Len(produced[r]) < MaxFragments THEN Chunks ELSE {} }
         \cup { OtherMessage }
         \cup { ResultMessage(t, "success") : t \in ResultTexts }
    ELSE IF turns[r] >= max_turns
    THEN { ResultMessage(t, "turn_limit_exceeded") : t \in ResultTexts }
    ELSE {}

\* "model" is logged once per run of consecutive backend events.
LogModel(l) ==
    IF l # <<>> /\ l[Len(l)] = "model" THEN l ELSE Append(l, "model")

\* The backend's own state after it yielded msg.
BackendYields(r, msg) ==
    /\ turns' = [turns EXCEPT ![r] =
            IF msg.ended = "turn_limit_exceeded" THEN @ ELSE @ + 1]
    /\ produced' = [produced EXCEPT ![r] =
            IF msg.kind = "content" THEN @ \o msg.text ELSE @]
    /\ result' = [result EXCEPT ![r] =
            IF msg.kind = "result" THEN msg.text ELSE @]
    /\ terminal' = [terminal EXCEPT ![r] = msg.ended]
    /\ log' = [log EXCEPT ![r] = LogModel(@)]

\* The backend raises (unreachable, process failure).
BackendFails(r) ==
    /\ terminal' = [terminal EXCEPT ![r] = "error"]
    /\ log' = [log EXCEPT ![r] = LogModel(@)]
    /\ UNCHANGED <<turns, produced, result>>

\* --------------------------------------------------------------- dispatch

\* invocations(), lines 120-132: build the options and hand over to the
\* requested mode. _stream_response (161-200) returns the Response around
\* the generator at once: nothing of generate() has run yet.
Dispatch(r) ==
    /\ pc[r] = "invoke"
    /\ IF stream(r)
       THEN /\ response' = [response EXCEPT ![r] = StreamResponse]
            /\ generator' = [generator EXCEPT ![r] = "unstarted"]
            /\ pc' = [pc EXCEPT ![r] = "streaming"]
       ELSE /\ pc' = [pc EXCEPT ![r] = "sync"]
            /\ UNCHANGED <<response, generator>>
    /\ UNCHANGED <<frontend, health, save_call, context_call,
                   tool, loop, MEMORY_ID, body, mcp_servers, memory_manager,
                   enhanced_prompt, turns, terminal, produced, result,
                   response_text, emitted, log, retrieval, store,
                   save_state>>

\* -------------------------------------------------------------- sync mode

\* run_agent's loop body in _sync_response (app.py 145-147).
SyncOnMessage(text, msg) ==
    IF msg.kind = "result" THEN msg.text ELSE text

\* One iteration of the async for in _sync_response; the iterator ends after
\* the terminal result and asyncio.run returns.
SyncMessage(r) ==
    /\ pc[r] = "sync"
    /\ \E msg \in BackendMessages(r) :
        /\ BackendYields(r, msg)
        /\ response_text' = [response_text EXCEPT
                ![r] = SyncOnMessage(@, msg)]
        /\ pc' = [pc EXCEPT ![r] =
                IF msg.kind = "result" THEN "sync_save" ELSE "sync"]
    /\ UNCHANGED <<frontend, health, save_call, context_call,
                   tool, generator, loop,
                   MEMORY_ID, body, mcp_servers, memory_manager,
                   enhanced_prompt, emitted, response, retrieval, store,
                   save_state>>

\* The backend raises inside asyncio.run: the exception leaves
\* _sync_response and invocations() answers it (app.py 134-136).
SyncBackendError(r) ==
    /\ pc[r] = "sync"
    /\ BackendFails(r)
    /\ response' = [response EXCEPT
            ![r] = ErrorResponse(500, "backend error")]
    /\ pc' = [pc EXCEPT ![r] = "done"]
    /\ UNCHANGED <<frontend, health, save_call, context_call,
                   tool, generator, loop,
                   MEMORY_ID, body, mcp_servers, memory_manager,
                   enhanced_prompt, response_text, emitted, retrieval,
                   store, save_state>>

\* ------------------------------------------------------------------- save

\* Fault model: the save is not conditioned on the response text.
SaveWantedAnyText(manager, text) == manager.present

\* Fault model: the save is not conditioned on a manager.
SaveWantedWithoutManager(manager, text) == Truthy(text)

\* The condition guarding the save (app.py 152, 192).
SaveWanted(manager, text) == manager.present /\ Truthy(text)

\* Fault model: save_interaction calls create_event whatever the texts are.
CreatesEventUnchecked(user_query, agent_response) == TRUE

\* save_interaction's own condition before create_event
\* (memory_hooks.py 157).
CreatesEvent(user_query, agent_response) ==
    Truthy(user_query) /\ Truthy(agent_response)

\* The event create_event is called with (memory_hooks.py 158-166).
InteractionEvent(manager, user_query, agent_response) ==
    [memory_id |-> manager.memory_id, actor_id |-> manager.actor_id,
     session_id |-> manager.session_id,
     messages |-> << [text |-> user_query, role |-> "USER"],
                     [text |-> agent_response, role |-> "ASSISTANT"] >>]

\* Fault model: nothing catches a raise of the store.
SaveRaisesUnguarded(store_raises) == store_raises

\* Whether a raise of the store escapes the save as the handlers call it:
\* save_interaction catches it (memory_hooks.py 156-169) and the handlers
\* wrap the call in a try of their own (app.py 153-156, 193-196).
SaveRaises(store_raises) == FALSE

\* Fault model: the prompt sent to the model is handed to the save.
original_query_enhanced(r) == enhanced_prompt[r]

\* The user text the handlers hand to the save: invocations() passes
\* user_input, not enhanced_prompt, as original_query (app.py 130, 132).
original_query(r) == user_input(r)

\* The save is reached (app.py 151-154, 191-194): save_interaction is
\* called when a manager exists and the response text is non-empty, and
\* calls create_event, which is then in flight.
BeginSave(r, next_pc, saving_pc) ==
    IF SaveWanted(memory_manager[r], response_text[r])
    THEN /\ log' = [log EXCEPT ![r] = Append(@, "save")]
         /\ IF CreatesEvent(original_query(r), response_text[r])
            THEN /\ save_state' = [save_state EXCEPT ![r] = "in_flight"]
                 /\ pc' = [pc EXCEPT ![r] = saving_pc]
            ELSE /\ pc' = [pc EXCEPT ![r] = next_pc]
                 /\ UNCHANGED save_state
    ELSE /\ pc' = [pc EXCEPT ![r] = next_pc]
         /\ UNCHANGED <<log, save_state>>

\* create_event returns: the event is stored, or the store raised.
StoreAnswers(r, store_raises) ==
    /\ store' = IF store_raises
                THEN store
                ELSE Append(store,
                            InteractionEvent(memory_manager[r],
                                             original_query(r),
                                             response_text[r]))
    /\ save_state' = [save_state EXCEPT
            ![r] = IF store_raises THEN "raised" ELSE "ok"]

\* _sync_response, lines 151-156, up to the call of create_event.
SyncSave(r) ==
    /\ pc[r] = "sync_save"
    /\ BeginSave(r, "sync_return", "sync_saving")
    /\ UNCHANGED <<frontend, health, save_call, context_call,
                   tool, generator, loop,
                   MEMORY_ID, body, mcp_servers, memory_manager,
                   enhanced_prompt, turns, terminal, produced, result,
                   response_text, emitted, response, retrieval, store>>

\* create_event answers the sync handler.
SyncSaved(r) ==
    /\ pc[r] = "sync_saving"
    /\ \E store_raises \in BOOLEAN :
        /\ StoreAnswers(r, store_raises)
        /\ IF SaveRaises(store_raises)
           THEN /\ response' = [response EXCEPT
                        ![r] = ErrorResponse(500, "store error")]
                /\ pc' = [pc EXCEPT ![r] = "done"]
           ELSE /\ pc' = [pc EXCEPT ![r] = "sync_return"]
                /\ UNCHANGED response
    /\ UNCHANGED <<frontend, health, save_call, context_call,
                   tool, generator, loop,
                   MEMORY_ID, body, mcp_servers, memory_manager,
                   enhanced_prompt, turns, terminal, produced, result,
                   response_text, emitted, log, retrieval>>

\* _sync_response, line 158.
SyncReturn(r) ==
    /\ pc[r] = "sync_return"
    /\ response' = [response EXCEPT
            ![r] = MessageResponse(response_text[r])]
    /\ pc' = [pc EXCEPT ![r] = "done"]
    /\ UNCHANGED <<frontend, health, save_call, context_call,
                   tool, generator, loop,
                   MEMORY_ID, body, mcp_servers, memory_manager,
                   enhanced_prompt, turns, terminal, produced, result,
                   response_text, emitted, log, retrieval, store,
                   save_state>>

\* ------------------------------------------------------------ stream mode

\* An SSE event: f"data: {chunk}\n\n".
Data(chunk) == <<"data: ">> \o chunk \o <<"\n\n">>

DoneEvent == <<"data: ", "[DONE]", "\n\n">>

\* Fault model: the result text is added to the fragments collected so far
\* instead of replacing them.
StreamOnMessageAppendsResult(text, msg) ==
    IF msg.kind \in {"content", "result"} THEN text \o msg.text ELSE text

\* run_agent's loop body in generate() (app.py 170-175): the new
\* response_text.
StreamOnMessage(text, msg) ==
    IF msg.kind = "content" THEN text \o msg.text
    ELSE IF msg.kind = "result" THEN msg.text
    ELSE text

\* Fault model: the branches of run_agent are swapped, only the result
\* text is yielded.
StreamYieldResultOnly(msg) ==
    IF msg.kind = "result" THEN <<Data(msg.text)>> ELSE <<>>

\* Fault model: the text of the result message is yielded as a fragment too.
StreamYieldResultToo(msg) ==
    IF msg.kind \in {"content", "result"} THEN <<Data(msg.text)>> ELSE <<>>

\* What run_agent yields for the message (app.py 173).
StreamYield(msg) ==
    IF msg.kind = "content" THEN <<Data(msg.text)>> ELSE <<>>

\* Fault model: generate() leaves its loop after the first message.
StreamAfterFirstMessage(msg) == "stream_save"

\* Where generate() stands after the message: the iterator ends after the
\* terminal result, StopAsyncIteration breaks the loop and the event loop
\* is closed (app.py 182-189).
StreamAfter(msg) ==
    IF msg.kind = "result" THEN "stream_save" ELSE "streaming"

\* Fault model: generate() has no finally, the loop is left as it was.
LoopLeftOpen(l) == l

\* finally: loop.close() (app.py 188-189), on every way out of the try.
LoopClosed(l) == "closed"

\* The generator is suspended at the yield of line 185 after a content
\* message and goes on running after any other message (app.py 180-187).
GeneratorAfter(msg) ==
    IF msg.kind = "content" THEN "suspended" ELSE "running"

\* The loop of lines 177-178 serves every message; the finally closes it
\* once the iterator has ended after the terminal result.
LoopAfter(msg) ==
    IF msg.kind = "result" THEN LoopClosed("open") ELSE "open"

\* One backend message consumed by generate(), with the event it yields.
StreamMessage(r) ==
    /\ pc[r] = "streaming"
    /\ \E msg \in BackendMessages(r) :
        /\ BackendYields(r, msg)
        /\ response_text' = [response_text EXCEPT
                ![r] = StreamOnMessage(@, msg)]
        /\ emitted' = [emitted EXCEPT ![r] = @ \o StreamYield(msg)]
        /\ pc' = [pc EXCEPT ![r] = StreamAfter(msg)]
        /\ generator' = [generator EXCEPT ![r] = GeneratorAfter(msg)]
        /\ loop' = [loop EXCEPT ![r] = LoopAfter(msg)]
    /\ UNCHANGED <<frontend, health, save_call, context_call,
                   tool, MEMORY_ID, body, mcp_servers, memory_manager,
                   enhanced_prompt, response, retrieval, store, save_state>>

\* The backend raises inside run_until_complete: the finally closes the
\* loop and the exception leaves generate(); the stream breaks off.
StreamBackendError(r) ==
    /\ pc[r] = "streaming"
    /\ BackendFails(r)
    /\ pc' = [pc EXCEPT ![r] = "aborted"]
    /\ generator' = [generator EXCEPT ![r] = "failed"]
    /\ loop' = [loop EXCEPT ![r] = LoopClosed("open")]
    /\ UNCHANGED <<frontend, health, save_call, context_call,
                   tool, MEMORY_ID, body, mcp_servers, memory_manager,
                   enhanced_prompt, response_text, emitted, response,
                   retrieval, store, save_state>>

\* generate(), lines 191-196, up to the call of create_event.
StreamSave(r) ==
    /\ pc[r] = "stream_save"
    /\ BeginSave(r, "stream_done", "stream_saving")
    /\ UNCHANGED <<frontend, health, save_call, context_call,
                   tool, generator, loop,
                   MEMORY_ID, body, mcp_servers, memory_manager,
                   enhanced_prompt, turns, terminal, produced, result,
                   response_text, emitted, response, retrieval, store>>

\* create_event answers generate().
StreamSaved(r) ==
    /\ pc[r] = "stream_saving"
    /\ \E store_raises \in BOOLEAN :
        /\ StoreAnswers(r, store_raises)
        /\ pc' = [pc EXCEPT ![r] =
                IF SaveRaises(store_raises)
                THEN "aborted" ELSE "stream_done"]
    /\ UNCHANGED <<frontend, health, save_call, context_call,
                   tool, generator, loop,
                   MEMORY_ID, body, mcp_servers, memory_manager,
                   enhanced_prompt, turns, terminal, produced, result,
                   response_text, emitted, response, log, retrieval>>

\* generate(), line 198.
StreamDone(r) ==
    /\ pc[r] = "stream_done"
    /\ emitted' = [emitted EXCEPT ![r] = Append(@, DoneEvent)]
    /\ pc' = [pc EXCEPT ![r] = "done"]
    /\ generator' = [generator EXCEPT ![r] = "finished"]
    /\ UNCHANGED <<frontend, health, save_call, context_call,
                   tool, loop, MEMORY_ID, body, mcp_servers, memory_manager,
                   enhanced_prompt, turns, terminal, produced, result,
                   response_text, response, log, retrieval, store,
                   save_state>>

\* The client goes away mid-stream: the server closes the generator, which
\* is suspended at the yield of line 185 or was never started. GeneratorExit
\* is raised at the yield, the finally closes the loop (188-189) and
\* nothing after it runs: no save (191-196), no sentinel (198). A generator
\* that was never started has created no loop.
ClientClose(r) ==
    /\ pc[r] = "streaming"
    /\ generator[r] \in {"unstarted", "suspended"}
    /\ generator' = [generator EXCEPT ![r] = "closed"]
    /\ loop' = [loop EXCEPT ![r] =
            IF generator[r] = "suspended" THEN LoopClosed(@) ELSE @]
    /\ pc' = [pc EXCEPT ![r] = "closed"]
    /\ UNCHANGED <<frontend, health, save_call, context_call,
                   tool, MEMORY_ID, body, mcp_servers, memory_manager,
                   enhanced_prompt, turns, terminal, produced, result,
                   response_text, emitted, response, log, retrieval, store,
                   save_state>>

\* ------------------------------------------------------------------ tools

\* The names the tables of the tools are keyed by, letter by letter.
smartphones == <<"s", "m", "a", "r", "t", "p", "h", "o", "n", "e", "s">>

laptops == <<"l", "a", "p", "t", "o", "p", "s">>

accessories == <<"a", "c", "c", "e", "s", "s", "o", "r", "i", "e", "s">>

headphones == <<"h", "e", "a", "d", "p", "h", "o", "n", "e", "s">>

monitors == <<"m", "o", "n", "i", "t", "o", "r", "s">>

UpperLetters ==
    <<"A", "B", "C", "D", "E", "F", "G", "H", "I", "J", "K", "L", "M",
      "N", "O", "P", "Q", "R", "S", "T", "U", "V", "W", "X", "Y", "Z">>

LowerLetters ==
    <<"a", "b", "c", "d", "e", "f", "g", "h", "i", "j", "k", "l", "m",
      "n", "o", "p", "q", "r", "s", "t", "u", "v", "w", "x", "y", "z">>

IsUpper(c) == \E i \in DOMAIN UpperLetters : UpperLetters[i] = c

IsLower(c) == \E i \in DOMAIN LowerLetters : LowerLetters[i] = c

LowerChar(c) ==
    IF IsUpper(c)
    THEN LowerLetters[CHOOSE i \in DOMAIN UpperLetters : UpperLetters[i] = c]
    ELSE c

UpperChar(c) ==
    IF IsLower(c)
    THEN UpperLetters[CHOOSE i \in DOMAIN LowerLetters : LowerLetters[i] = c]
    ELSE c

\* Fault model: the category is looked up as it was given.
lower_missing(text) == text

\* str.lower().
lower(text) == [i \in DOMAIN text |-> LowerChar(text[i])]

\* str.title(): a letter is upper-cased after a non-letter and lower-cased
\* after a letter.
title(text) ==
    [i \in DOMAIN text |->
        IF i > 1 /\ (IsUpper(text[i - 1]) \/ IsLower(text[i - 1]))
        THEN LowerChar(text[i])
        ELSE UpperChar(text[i])]

\* default_policy of get_return_policy (tools.py 54-61).
default_policy ==
    [window |-> <<"30 days">>,
     condition |-> <<"Original condition with all included ", "components">>,
     process |-> <<"Contact technical support">>,
     refund_time |-> <<"5-7 business days after inspection">>,
     shipping |-> <<"Return shipping policies vary">>,
     warranty |-> <<"Standard manufacturer warranty applies">>]

\* return_policies.get(category, default_policy) (tools.py 27-52, 63).
return_policies(category) ==
    IF category = smartphones
    THEN [window |-> <<"30 days">>,
          condition |-> <<"Original packaging, no physical damage, ",
                          "factory reset required">>,
          process |-> <<"Online RMA portal or technical support">>,
          refund_time |-> <<"5-7 business days after inspection">>,
          shipping |-> <<"Free return shipping, prepaid label provided">>,
          warranty |-> <<"1-year manufacturer warranty", " included">>]
    ELSE IF category = laptops
    THEN [window |-> <<"30 days">>,
          condition |-> <<"Original packaging, all accessories, ",
                          "no software modifications">>,
          process |-> <<"Technical support verification required ",
                        "before return">>,
          refund_time |-> <<"7-10 business days after inspection">>,
          shipping |-> <<"Free return shipping with original packaging">>,
          warranty |-> <<"1-year manufacturer warranty",
                         ", extended options available">>]
    ELSE IF category = accessories
    THEN [window |-> <<"30 days">>,
          condition |-> <<"Unopened packaging preferred, ",
                          "all components included">>,
          process |-> <<"Online return portal">>,
          refund_time |-> <<"3-5 business days after receipt">>,
          shipping |-> <<"Customer pays return shipping under $50">>,
          warranty |-> <<"90-day manufacturer warranty">>]
    ELSE default_policy

\* The f-string of get_return_policy (tools.py 64-72).
PolicyText(product_category, policy) ==
    <<"Return Policy - ">> \o title(product_category) \o <<":\n\n">>
    \o <<"* Return window: ">> \o policy.window \o <<" from delivery\n">>
    \o <<"* Condition: ">> \o policy.condition \o <<"\n">>
    \o <<"* Process: ">> \o policy.process \o <<"\n">>
    \o <<"* Refund timeline: ">> \o policy.refund_time \o <<"\n">>
    \o <<"* Shipping: ">> \o policy.shipping \o <<"\n">>
    \o <<"* Warranty: ">> \o policy.warranty

\* get_return_policy (tools.py 25-74): args["product_category"] raises
\* KeyError when the key is missing, and .lower() raises AttributeError on
\* a value that is not a string; nothing in the handler catches either.
get_return_policy(args) ==
    IF "product_category" \notin args.keys THEN Raises("KeyError")
    ELSE IF args.val["product_category"].type # "string"
    THEN Raises("AttributeError")
    ELSE LET product_category == args.val["product_category"].text
         IN  TextContent(PolicyText(product_category,
                    return_policies(lower(product_category))))

\* products.get(product_type) in get_product_info (tools.py 94-125); a type
\* that is not in the table gives None.
products(product_type) ==
    IF product_type = laptops
    THEN [known |-> TRUE,
          warranty |-> <<"1-year manufacturer warranty",
                         " + optional extended coverage">>,
          specs |-> <<"Intel/AMD processors, 8-32GB RAM, SSD storage, ",
                      "various display sizes">>,
          features |-> <<"Backlit keyboards, USB-C/Thunderbolt, Wi-Fi 6, ",
                         "Bluetooth 5.0">>,
          compatibility |-> <<"Windows 11, macOS, Linux support varies ",
                              "by model">>,
          support |-> <<"Technical support and driver updates included">>]
    ELSE IF product_type = smartphones
    THEN [known |-> TRUE,
          warranty |-> <<"1-year manufacturer warranty">>,
          specs |-> <<"5G/4G connectivity, 128GB-1TB storage, ",
                      "multiple camera systems">>,
          features |-> <<"Wireless charging, water resistance, ",
                         "biometric security">>,
          compatibility |-> <<"iOS/Android, carrier unlocked options ",
                              "available">>,
          support |-> <<"Software updates and technical support included">>]
    ELSE IF product_type = headphones
    THEN [known |-> TRUE,
          warranty |-> <<"1-year manufacturer warranty">>,
          specs |-> <<"Wired/wireless options, noise cancellation, ",
                      "20Hz-20kHz frequency">>,
          features |-> <<"Active noise cancellation, touch controls, ",
                         "voice assistant">>,
          compatibility |-> <<"Bluetooth 5.0+, 3.5mm jack, USB-C charging">>,
          support |-> <<"Firmware updates via companion app">>]
    ELSE IF product_type = monitors
    THEN [known |-> TRUE,
          warranty |-> <<"3-year manufacturer warranty">>,
          specs |-> <<"4K/1440p/1080p resolutions, IPS/OLED panels, ",
                      "various sizes">>,
          features |-> <<"HDR support, high refresh rates, ",
                         "adjustable stands">>,
          compatibility |-> <<"HDMI, DisplayPort, USB-C inputs">>,
          support |-> <<"Color calibration and technical support">>]
    ELSE [known |-> FALSE, warranty |-> <<>>, specs |-> <<>>,
          features |-> <<>>, compatibility |-> <<>>, support |-> <<>>]

\* get_product_info (tools.py 91-142): as get_return_policy, the read of
\* the argument and .lower() are not inside any try.
get_product_info(args) ==
    IF "product_type" \notin args.keys THEN Raises("KeyError")
    ELSE IF args.val["product_type"].type # "string"
    THEN Raises("AttributeError")
    ELSE LET product_type == args.val["product_type"].text
             product == products(lower(product_type))
         IN  IF ~product.known
             THEN TextContent(
                    <<"Technical specifications for ">> \o product_type
                    \o <<" not available. ",
                         "Please contact our technical support team for ",
                         "detailed product information and compatibility ",
                         "requirements.">>)
             ELSE TextContent(
                    <<"Technical Information - ">> \o title(product_type)
                    \o <<":\n\n">>
                    \o <<"* Warranty: ">> \o product.warranty \o <<"\n">>
                    \o <<"* Specifications: ">> \o product.specs \o <<"\n">>
                    \o <<"* Key Features: ">> \o product.features
                    \o <<"\n">>
                    \o <<"* Compatibility: ">> \o product.compatibility
                    \o <<"\n">>
                    \o <<"* Support: ">> \o product.support)

\* What a service a handler calls does: it raises, or returns results, each
\* with its text and its relevance score in tenths.
Outcome(exception, results) == [raises |-> exception, results |-> results]

Hit(content, score) == [content |-> content, score |-> score]

\* DDGS().text(...): the exceptions of ddgs, any other exception, or a list
\* of results, possibly empty.
SearchOutcomes ==
    { Outcome(e, <<>>) :
        e \in {"RatelimitException", "DDGSException", "TimeoutError"} }
    \cup { Outcome("none", rs) :
            rs \in { <<>>, <<Hit(<<"hit1">>, 0)>>,
                     <<Hit(<<"hit1">>, 0), Hit(<<"hit2">>, 0)>> } }

\* json.dumps of the list of results.
RECURSIVE Items(_)
Items(results) ==
    IF results = <<>> THEN <<>>
    ELSE <<"{">> \o Head(results).content \o <<"}">>
         \o (IF Len(results) > 1 THEN <<", ">> ELSE <<>>)
         \o Items(Tail(results))

json_dumps(results) == <<"[">> \o Items(results) \o <<"]">>

\* Fault model: web_search catches the exceptions of ddgs only.
web_search_except_ddgs_only(exception) ==
    IF exception = "RatelimitException"
    THEN TextContent(<<"Rate limit reached. Please try again later.">>)
    ELSE IF exception = "DDGSException"
    THEN TextContent(<<"Search error: ", exception>>)
    ELSE Raises(exception)

\* The except clauses of web_search (tools.py 177-182).
web_search_except(exception) ==
    IF exception = "RatelimitException"
    THEN TextContent(<<"Rate limit reached. Please try again later.">>)
    ELSE TextContent(<<"Search error: ", exception>>)

\* web_search (tools.py 167-181): args["keywords"] is read before the try;
\* region and max_results are read with defaults and only passed on.
web_search(args, outcome) ==
    IF "keywords" \notin args.keys THEN Raises("KeyError")
    ELSE IF outcome.raises # "none" THEN web_search_except(outcome.raises)
    ELSE TextContent(IF outcome.results # <<>>
                     THEN json_dumps(outcome.results)
                     ELSE <<"No results found.">>)

\* The lowest score a knowledge-base result is kept with, in tenths.
MinScore == 4

\* The knowledge-base lookup: a call of boto3 raises, or retrieve() returns
\* results.
KnowledgeBaseOutcomes ==
    { Outcome("ClientError", <<>>) }
    \cup { Outcome("none", rs) :
            rs \in { <<>>,
                     <<Hit(<<"doc1">>, 9)>>,
                     <<Hit(<<"doc1">>, 3)>>,
                     <<Hit(<<>>, 9)>>,
                     <<Hit(<<"doc1">>, 4), Hit(<<"doc2">>, 3),
                       Hit(<<"doc3">>, 7)>> } }

\* "\n\n---\n\n".join(results).
RECURSIVE JoinDocs(_)
JoinDocs(results) ==
    IF results = <<>> THEN <<>>
    ELSE Head(results)
         \o (IF Len(results) > 1 THEN <<"\n\n---\n\n">> ELSE <<>>)
         \o JoinDocs(Tail(results))

\* The results get_technical_support keeps (tools.py 224-229).
Relevant(results) ==
    LET kept == SelectSeq(results,
                    LAMBDA h : Truthy(h.content) /\ h.score >= MinScore)
    IN  [i \in DOMAIN kept |-> kept[i].content]

\* get_technical_support (tools.py 200-242): args["issue_description"] is
\* read before the try, everything else is inside it.
get_technical_support(args, outcome) ==
    IF "issue_description" \notin args.keys THEN Raises("KeyError")
    ELSE IF outcome.raises # "none"
    THEN TextContent(<<"Unable to access technical support ",
                       "documentation. Error: ", outcome.raises>>)
    ELSE IF Relevant(outcome.results) # <<>>
    THEN TextContent(JoinDocs(Relevant(outcome.results)))
    ELSE TextContent(<<"No relevant technical documentation found for ",
                       "the described issue. ",
                       "Please contact our technical support team ",
                       "directly.">>)

\* The tools the MCP server is created with (mcp_server.py 14-18).
tools ==
    {"get_return_policy", "get_product_info", "web_search",
     "get_technical_support"}

\* Fault model: the schemas name no required argument.
input_schema_nothing_required(name) ==
    [properties |->
        IF name = "get_return_policy"
        THEN {<<"product_category", "string">>}
        ELSE IF name = "get_product_info"
        THEN {<<"product_type", "string">>}
        ELSE IF name = "web_search"
        THEN {<<"keywords", "string">>, <<"region", "string">>,
              <<"max_results", "integer">>}
        ELSE {<<"issue_description", "string">>},
     required |-> {}]

\* The input_schema each tool is declared with (tools.py 11-24, 77-90,
\* 145-168, 186-199): the type of each property and the required ones.
input_schema(name) ==
    IF name = "get_return_policy"
    THEN [properties |-> {<<"product_category", "string">>},
          required |-> {"product_category"}]
    ELSE IF name = "get_product_info"
    THEN [properties |-> {<<"product_type", "string">>},
          required |-> {"product_type"}]
    ELSE IF name = "web_search"
    THEN [properties |-> {<<"keywords", "string">>, <<"region", "string">>,
                          <<"max_results", "integer">>},
          required |-> {"keywords"}]
    ELSE [properties |-> {<<"issue_description", "string">>},
          required |-> {"issue_description"}]

\* The arguments are an object with every required key, and each key the
\* schema describes holds a value of the declared type.
Valid(schema, args) ==
    /\ schema.required \subseteq args.keys
    /\ \A p \in schema.properties :
            p[1] \in args.keys => args.val[p[1]].type = p[2]

\* What the services a handler calls may do during one call.
Outcomes(name) ==
    IF name = "web_search" THEN SearchOutcomes
    ELSE IF name = "get_technical_support" THEN KnowledgeBaseOutcomes
    ELSE {Outcome("none", <<>>)}

\* The handler registered under the name, applied to the arguments.
Handler(name, args, outcome) ==
    IF name = "get_return_policy" THEN get_return_policy(args)
    ELSE IF name = "get_product_info" THEN get_product_info(args)
    ELSE IF name = "web_search" THEN web_search(args, outcome)
    ELSE get_technical_support(args, outcome)

\* Every way of writing a name in upper and lower case letters.
Casings(text) ==
    { [i \in DOMAIN text |-> IF i \in S THEN UpperChar(text[i]) ELSE text[i]]
        : S \in SUBSET DOMAIN text }

\* The category and product names the model asks about.
OtherNames ==
    { <<>>, <<"t", "a", "b", "l", "e", "t", "s">>,
      <<"l", "a", "p", "t", "o", "p">>,
      <<" ", "l", "a", "p", "t", "o", "p", "s">>,
      <<"s", "m", "a", "r", "t", "_", "t", "v">> }

CategoryTexts ==
    Casings(smartphones) \cup Casings(laptops) \cup Casings(accessories)
    \cup {headphones, monitors} \cup OtherNames

ProductTexts ==
    Casings(monitors) \cup {laptops, smartphones, headphones, accessories}
    \cup OtherNames

\* The calls the model may ask for: each tool with its argument, and any
\* name, registered or not, with no argument, with a single argument under
\* any key as a string or as an integer, or with web_search's optional
\* arguments of the right and of the wrong type.
ToolCalls ==
    { [name |-> "get_return_policy",
       args |-> Args({<<"product_category", String(c)>>})]
        : c \in CategoryTexts }
    \cup { [name |-> "get_product_info",
            args |-> Args({<<"product_type", String(c)>>})]
            : c \in ProductTexts }
    \cup { [name |-> n, args |-> a] :
            n \in tools \cup {"get_weather"},
            a \in {Args({})}
                \cup { Args({<<k, v>>}) :
                        k \in ArgNames, v \in {String(<<"x">>), Integer} }
                \cup { Args({<<"keywords", String(<<"x">>)>>,
                             <<"region", region>>,
                             <<"max_results", max_results>>}) :
                        region \in {String(<<"us-en">>), Integer},
                        max_results \in {String(<<"5">>), Integer} } }

\* The model asks for a tool call.
ToolCall ==
    /\ tool.phase = "idle"
    /\ \E call \in ToolCalls :
        tool' = [phase |-> "called", name |-> call.name, args |-> call.args,
                 failure |-> "none", reply |-> NoReply]
    /\ UNCHANGED <<frontend, health, save_call, context_call,
                   MEMORY_ID, pc, body, mcp_servers, memory_manager,
                   enhanced_prompt, turns, terminal, produced, result,
                   response_text, emitted, response, log, retrieval, store,
                   save_state, generator, loop>>

\* The MCP server looks the tool up and validates the arguments against
\* its input schema before it runs the handler.
CatalogValidates ==
    /\ tool.phase = "called"
    /\ tool' =
        IF tool.name \notin tools
        THEN [tool EXCEPT !.phase = "rejected",
                          !.reply = Raises("UnknownToolError")]
        ELSE IF ~Valid(input_schema(tool.name), tool.args)
        THEN [tool EXCEPT !.phase = "rejected",
                          !.reply = Raises("SchemaValidationError")]
        ELSE [tool EXCEPT !.phase = "accepted"]
    /\ UNCHANGED <<frontend, health, save_call, context_call,
                   MEMORY_ID, pc, body, mcp_servers, memory_manager,
                   enhanced_prompt, turns, terminal, produced, result,
                   response_text, emitted, response, log, retrieval, store,
                   save_state, generator, loop>>

\* The handler runs on the validated arguments and returns or raises.
HandlerRuns ==
    /\ tool.phase = "accepted"
    /\ \E outcome \in Outcomes(tool.name) :
        LET reply == Handler(tool.name, tool.args, outcome)
        IN  tool' = [tool EXCEPT
                !.phase = IF reply.raised = "none"
                          THEN "returned" ELSE "raised",
                !.failure = outcome.raises,
                !.reply = reply]
    /\ UNCHANGED <<frontend, health, save_call, context_call,
                   MEMORY_ID, pc, body, mcp_servers, memory_manager,
                   enhanced_prompt, turns, terminal, produced, result,
                   response_text, emitted, response, log, retrieval, store,
                   save_state, generator, loop>>

\* --------------------------------------------------------------- frontend

\* The longest history and the widest window looked at.
MaxHistory == 6

MaxWindow == 3

\* The windows build_context is configured with.
Windows == 0..MaxWindow

\* The text of the i-th message of a history.
MessageTexts == <<"m1", "m2", "m3", "m4", "m5", "m6", "m7", "m8">>

\* s[i:] of Python: a negative i counts from the end, and -0 is 0.
SliceFrom(s, i) ==
    LET start == IF i < 0
                 THEN (IF Len(s) + i > 0 THEN Len(s) + i ELSE 0)
                 ELSE (IF i < Len(s) THEN i ELSE Len(s))
    IN  SubSeq(s, start + 1, Len(s))

\* history of build_context (main.py 49-53).
RecentHistory(messages, context_window) ==
    IF Len(messages) > context_window * 2
    THEN SliceFrom(messages, 0 - context_window * 2)
    ELSE messages

\* The loop of build_context (main.py 54-57): one line per message.
RECURSIVE ContextOf(_)
ContextOf(history) ==
    IF history = <<>> THEN <<>>
    ELSE << IF Head(history).role = "user" THEN "User" ELSE "Assistant",
            ": ", Head(history).content, "\n" >>
         \o ContextOf(Tail(history))

\* build_context (main.py 47-58).
build_context(messages, context_window) ==
    ContextOf(RecentHistory(messages, context_window))

\* A message joins the history of the page (main.py 95 and the assistant's
\* answer after it).
PostMessage ==
    /\ Len(frontend.messages) < MaxHistory
    /\ \E role \in {"user", "assistant"} :
        frontend' = [frontend EXCEPT
            !.messages = Append(@,
                [role |-> role,
                 content |-> MessageTexts[Len(frontend.messages) + 1]]),
            !.context = <<>>,
            !.built = FALSE]
    /\ UNCHANGED <<MEMORY_ID, pc, body, mcp_servers, memory_manager,
                   enhanced_prompt, turns, terminal, produced, result,
                   response_text, emitted, response, log, retrieval, store,
                   save_state, generator, loop, tool, health, save_call,
                   context_call>>

\* The page builds the context of the next request (main.py 107).
BuildContext ==
    /\ ~frontend.built
    /\ \E context_window \in Windows :
        frontend' = [frontend EXCEPT
            !.context_window = context_window,
            !.context = build_context(frontend.messages, context_window),
            !.built = TRUE]
    /\ UNCHANGED <<MEMORY_ID, pc, body, mcp_servers, memory_manager,
                   enhanced_prompt, turns, terminal, produced, result,
                   response_text, emitted, response, log, retrieval, store,
                   save_state, generator, loop, tool, health, save_call,
                   context_call>>

\* ----------------------------------------------------------- health check

\* Fault model: the health check answers for the memory as well.
ping_needs_memory ==
    IF MEMORY_ID = None
    THEN [status |-> 503, body |-> {<<"status", "unhealthy">>}]
    ELSE [status |-> 200, body |-> {<<"status", "healthy">>}]

\* ping() (app.py 57-60): jsonify({"status": "healthy"}), 200.
ping == [status |-> 200, body |-> {<<"status", "healthy">>}]

\* What the service is doing when a health check comes in: a request has
\* failed, a request is in flight, or neither.
Situation ==
    IF \E r \in Requests : terminal[r] = "error" THEN "failed"
    ELSE IF \E r \in Requests : pc[r] \notin {"idle", "done"}
    THEN "in_flight"
    ELSE "quiet"

\* GET /ping is answered; the route reads and writes nothing of the
\* service. The answer is kept with the situation it was given in.
Ping ==
    /\ health' = [status |-> ping.status, body |-> ping.body,
                  during |-> Situation]
    /\ UNCHANGED <<MEMORY_ID, pc, body, mcp_servers, memory_manager,
                   enhanced_prompt, turns, terminal, produced, result,
                   response_text, emitted, response, log, retrieval, store,
                   save_state, generator, loop, tool, frontend, save_call,
                   context_call>>

\* ------------------------------------------------- save_interaction alone

\* The most events the store holds when save_interaction is called alone.
MaxSaves == 3

\* The user texts save_interaction is called with.
UserTexts == {<<>>, <<"q">>}

\* Whether a raise of create_event leaves save_interaction: its whole body
\* is inside try / except Exception (memory_hooks.py 156, 168-169).
save_interaction_raises(store_raises) == FALSE

\* save_interaction (memory_hooks.py 149-169) called on the manager of
\* either customer, with any two texts and a store that works or raises.
SaveInteraction ==
    /\ MEMORY_ID # None
    /\ Len(store) < MaxSaves
    /\ \E r \in Requests, user_query \in UserTexts,
          agent_response \in ResultTexts, store_raises \in BOOLEAN :
        LET manager == NewManager(MEMORY_ID, "actor-" \o r, "session-" \o r)
            creates == CreatesEvent(user_query, agent_response)
        IN  /\ store' =
                IF creates /\ ~store_raises
                THEN Append(store, InteractionEvent(manager, user_query,
                                                    agent_response))
                ELSE store
            /\ save_call' =
                [called |-> TRUE, user_query |-> user_query,
                 agent_response |-> agent_response,
                 before |-> Len(store),
                 store_called |-> creates,
                 store_raised |-> creates /\ store_raises,
                 raised |-> creates /\ store_raises
                            /\ save_interaction_raises(store_raises)]
    /\ UNCHANGED <<MEMORY_ID, pc, body, mcp_servers, memory_manager,
                   enhanced_prompt, turns, terminal, produced, result,
                   response_text, emitted, response, log, retrieval,
                   save_state, generator, loop, tool, frontend, health,
                   context_call>>

\* --------------------------------------------------- retrieve_context alone

\* What the memory service may hold for a namespace: a padded text, a plain
\* text, a blank text, and a record that is not a dict.
Snippets ==
    { Memory(<<" ", "m1", " ">>), Memory(<<"m2">>), Memory(<<" ">>),
      [is_dict |-> FALSE, content_is_dict |-> FALSE, text |-> <<"x">>] }

\* The ranked answers of the memory service to one query: it returns at
\* most top_k memories, best first.
RankedLists == UNION { [1..n -> Snippets] : n \in 0..top_k }

RankedOutcomes ==
    { [raises |-> TRUE, memories |-> <<>>] }
    \cup { [raises |-> FALSE, memories |-> ms] : ms \in RankedLists }

\* retrieve_context (memory_hooks.py 112-147) called on the manager of one
\* customer, the memory service answering each query in any way.
RetrieveContext ==
    /\ MEMORY_ID # None
    /\ ~context_call.called
    /\ \E r \in Requests :
       \E outcomes \in [DOMAIN Strategies -> RankedOutcomes] :
        LET manager == NewManager(MEMORY_ID, "actor-" \o r, "session-" \o r)
            query_text == <<"q">>
        IN  context_call' =
                [called |-> TRUE, actor_id |-> manager.actor_id,
                 query_text |-> query_text,
                 answers |-> outcomes,
                 queries |-> Queries(Strategies, manager.actor_id,
                                     query_text, outcomes),
                 context |-> retrieve_context(Strategies, outcomes)]
    /\ UNCHANGED <<MEMORY_ID, pc, body, mcp_servers, memory_manager,
                   enhanced_prompt, turns, terminal, produced, result,
                   response_text, emitted, response, log, retrieval, store,
                   save_state, generator, loop, tool, frontend, health,
                   save_call>>

\* ------------------------------------------------------------------- Next

\* The requests served in this specification.
Served == {"r1"}

\* One step of the handling of request r.
Serve(r) ==
    \/ Receive(r)
    \/ ConfigureGateway(r)
    \/ RetrieveMemory(r)
    \/ Dispatch(r)
    \/ SyncMessage(r)
    \/ SyncBackendError(r)
    \/ SyncSave(r)
    \/ SyncSaved(r)
    \/ SyncReturn(r)
    \/ StreamMessage(r)
    \/ StreamBackendError(r)
    \/ StreamSave(r)
    \/ StreamSaved(r)
    \/ StreamDone(r)

Next == \E r \in Served : Serve(r)

Spec == Init /\ [][Next]_vars

\* The backend answers every pull in the end: it yields a message or raises.
BackendProgress ==
    \E r \in Served :
        \/ SyncMessage(r)
        \/ SyncBackendError(r)
        \/ StreamMessage(r)
        \/ StreamBackendError(r)

FairSpec == Spec /\ WF_vars(BackendProgress)

\* The service with clients that may close a streaming response early.
NextWithClose ==
    \/ Next
    \/ \E r \in Served : ClientClose(r)

CloseSpec == Init /\ [][NextWithClose]_vars

\* The MCP server serving the tool calls of the model.
ToolNext ==
    \/ ToolCall
    \/ CatalogValidates
    \/ HandlerRuns

ToolSpec == Init /\ [][ToolNext]_vars

\* The chat page building the context of its requests.
FrontNext ==
    \/ PostMessage
    \/ BuildContext

FrontSpec == Init /\ [][FrontNext]_vars

\* The service with a prober that may ask for its health at any moment.
NextWithPing ==
    \/ Next
    \/ Ping

ProbeSpec == Init /\ [][NextWithPing]_vars

\* save_interaction called on its own, again and again.
SaveNext == SaveInteraction

SaveSpec == Init /\ [][SaveNext]_vars

\* retrieve_context called directly.
RetrieveNext == RetrieveContext

RetrieveSpec == Init /\ [][RetrieveNext]_vars

\* The longest backend run looked at when two requests are served at once.
ConcTurns == 1

\* Two clients at once, each sending its own ids and credential; the runs
\* of the backend are short, their result is empty or one token, and the
\* memory service answers retrievals without raising.
Calm(r) ==
    /\ body[r] = NoBody \/ body[r].keys = {"prompt", "actor_id", "session_id"}
    /\ body[r] = NoBody \/ Truthy(body[r].auth)
    /\ turns[r] <= ConcTurns
    /\ Len(result[r]) <= 1
    /\ ~retrieval[r].raised
    /\ retrieval[r].snippets <= 1

AllCalm == \A r \in Requests : Calm(r)

\* The service handling both requests, their steps interleaved in any way.
ConcNext ==
    \E r \in Requests :
        \/ Receive(r) /\ AllCalm'
        \/ ConfigureGateway(r) /\ AllCalm'
        \/ RetrieveMemory(r) /\ AllCalm'
        \/ Dispatch(r) /\ AllCalm'
        \/ SyncMessage(r) /\ AllCalm'
        \/ SyncBackendError(r) /\ AllCalm'
        \/ SyncSave(r) /\ AllCalm'
        \/ SyncSaved(r) /\ AllCalm'
        \/ SyncReturn(r) /\ AllCalm'
        \/ StreamMessage(r) /\ AllCalm'
        \/ StreamBackendError(r) /\ AllCalm'
        \/ StreamSave(r) /\ AllCalm'
        \/ StreamSaved(r) /\ AllCalm'
        \/ StreamDone(r) /\ AllCalm'

ConcSpec == Init /\ [][ConcNext]_vars

\* ----------------------------------------------------------------- claims

\* The request has been read by its handler.
Arrived(r) == pc[r] # "idle"

\* invocations() has returned a response for the request.
Returned(r) == response[r] # NoResponse

\* The number of entries of a log equal to label.
Count(l, label) == Cardinality({i \in DOMAIN l : l[i] = label})

\* The events the request put into the store.
StoredBy(r) ==
    {i \in DOMAIN store : store[i].session_id = session_id(r)}

\* C1: a request whose prompt is absent or empty is answered 400 with an
\* error field and has no side effect: no gateway configuration, no memory
\* manager, no retrieval, no model round-trip, no save.
C1_EmptyPromptRejected ==
    \A r \in Requests :
        (Arrived(r) /\ ~Truthy(user_input(r))) =>
            /\ pc[r] = "done"
            /\ response[r].status = 400
            /\ response[r].fields = {"error"}
            /\ log[r] = <<>>
            /\ mcp_servers[r] = {}
            /\ memory_manager[r] = NoManager
            /\ retrieval[r] = NoRetrieval
            /\ turns[r] = 0
            /\ terminal[r] = "none"
            /\ emitted[r] = <<>>
            /\ save_state[r] = "none"
            /\ StoredBy(r) = {}

C1_Witness ==
    \E r \in Requests :
        /\ pc[r] = "done"
        /\ "prompt" \in body[r].keys
        /\ user_input(r) = <<>>
        /\ Truthy(auth_header(r))
        /\ MEMORY_ID # None
        /\ response[r].status = 400

RunMessages(r) ==
    [i \in DOMAIN produced[r] |-> ContentMessage(produced[r][i])]
    \o (IF terminal[r] \in {"success", "turn_limit_exceeded"}
        THEN <<ResultMessage(result[r], terminal[r])>>
        ELSE <<>>)

\* response_text after _sync_response's loop has consumed the messages.
RECURSIVE SyncTextAfter(_, _)
SyncTextAfter(text, msgs) ==
    IF msgs = <<>> THEN text
    ELSE SyncTextAfter(SyncOnMessage(text, Head(msgs)), Tail(msgs))

\* The message the non-streaming response carries for the same backend run.
SyncMessageFor(r) == SyncTextAfter(<<>>, RunMessages(r))

\* The fragment an SSE data event carries.
Payload(event) == SubSeq(event, 2, Len(event) - 1)

\* The concatenation of the fragments emitted so far, the sentinel left out.
RECURSIVE ConcatPayloads(_)
ConcatPayloads(events) ==
    IF events = <<>> THEN <<>>
    ELSE (IF Head(events) = DoneEvent THEN <<>> ELSE Payload(Head(events)))
         \o ConcatPayloads(Tail(events))

IsPrefix(s, t) == Len(s) <= Len(t) /\ SubSeq(t, 1, Len(s)) = s

IsStrictPrefix(s, t) == IsPrefix(s, t) /\ Len(s) < Len(t)

\* C3: the concatenation of the streamed fragments equals the message the
\* non-streaming response returns for the same backend events, or is a
\* strict prefix of it, and a strict prefix only when the turn budget was
\* exhausted.
C3_StreamConcatMatchesSync ==
    \A r \in Requests :
        (pc[r] = "done" /\ stream(r) /\ Truthy(user_input(r))) =>
            LET streamed == ConcatPayloads(emitted[r])
                message == SyncMessageFor(r)
            IN \/ streamed = message
               \/ /\ IsStrictPrefix(streamed, message)
                  /\ terminal[r] = "turn_limit_exceeded"

\* The configured turn budget (app.py 126).
TurnBudget == 10

\* A backend event of request r happens in this step and it is not the end
\* of the run by a failure or by the exhausted budget: a model round-trip.
RoundTrip(r) ==
    /\ pc[r] \in {"sync", "streaming"}
    /\ <<turns[r], produced[r], result[r], terminal[r], log[r]>>'
            # <<turns[r], produced[r], result[r], terminal[r], log[r]>>
    /\ terminal'[r] \in {"none", "success"}

\* C4: the model round-trips of one invocation never exceed the turn budget
\* of 10, and every round-trip raises the turn count.
C4_TurnBudgetRespected ==
    /\ [](\A r \in Requests : turns[r] <= TurnBudget)
    /\ [][\A r \in Requests : RoundTrip(r) => turns'[r] = turns[r] + 1]_vars

C4_Witness ==
    \E r \in Requests :
        /\ turns[r] = TurnBudget
        /\ produced[r] = <<>>
        /\ terminal[r] = "turn_limit_exceeded"

\* The backend run of the request is under way.
Running(r) == pc[r] \in {"sync", "streaming"} /\ terminal[r] = "none"

\* C5: every invocation reaches a terminal state (success, turn limit
\* exceeded or error); once the budget of turns is used up the next backend
\* event ends the run, whatever the model asks for.
C5_InvocationTerminates ==
    /\ \A r \in Requests :
        Running(r) ~> terminal[r] \in {"success", "turn_limit_exceeded",
                                       "error"}
    /\ [][\A r \in Requests :
            (Running(r) /\ turns[r] >= TurnBudget
             /\ <<turns[r], terminal[r]>>' # <<turns[r], terminal[r]>>)
                => terminal'[r] \in {"turn_limit_exceeded", "error"}]_vars

C5_Witness ==
    \E r \in Requests :
        /\ stream(r)
        /\ turns[r] = TurnBudget
        /\ terminal[r] = "turn_limit_exceeded"
        /\ pc[r] = "done"

\* C6: the save is attempted at most once per request, only after the
\* backend run has ended, and only with a non-empty response text; a request
\* whose response text is empty attempts none.
C6_SaveAtMostOnce ==
    \A r \in Requests :
        /\ Count(log[r], "save") <= 1
        /\ Cardinality(StoredBy(r)) <= 1
        /\ Count(log[r], "save") = 1 =>
            /\ terminal[r] \in {"success", "turn_limit_exceeded"}
            /\ Truthy(response_text[r])
        /\ ~Truthy(response_text[r]) =>
            /\ Count(log[r], "save") = 0
            /\ save_state[r] = "none"

C6_Witness ==
    \E r \in Requests :
        /\ pc[r] = "done"
        /\ stream(r)
        /\ Count(log[r], "save") = 1
        /\ save_state[r] = "ok"
        /\ Cardinality(StoredBy(r)) = 1

\* The events a complete stream carries for the request's backend run: one
\* data event per content message, then the sentinel.
ExpectedStream(r) ==
    [i \in DOMAIN produced[r] |-> Data(<<produced[r][i]>>)]
    \o <<DoneEvent>>

\* C7: a store that raises during the save changes nothing of what the
\* caller gets: sync mode returns 200 with the message of the backend run,
\* streaming mode emits the run's fragments and the sentinel, exactly as
\* with a store that works, and no error response is returned.
C7_SaveFailureInvisible ==
    \A r \in Requests :
        save_state[r] \in {"ok", "raised"} =>
            /\ pc[r] # "aborted"
            /\ response[r].fields # {"error"}
            /\ pc[r] = "done" =>
                IF stream(r)
                THEN /\ response[r] = StreamResponse
                     /\ emitted[r] = ExpectedStream(r)
                ELSE response[r] = MessageResponse(SyncMessageFor(r))

C7_Witness ==
    \E r \in Requests :
        /\ save_state[r] = "raised"
        /\ pc[r] = "done"
        /\ ~stream(r)
        /\ response[r].status = 200
        /\ Truthy(response[r].message)

\* C8: retrieve_context does not raise; when a namespace query fails, even
\* after earlier namespaces returned snippets, or when no non-blank snippet
\* comes back, it returns "": the prompt stays the user's, the manager is
\* kept, and the request goes on to the model invocation (the only error
\* response it can still get is for a failing backend).
C8_RetrievalNeverBlocks ==
    \A r \in Requests :
        retrieval[r].called =>
            /\ memory_manager[r].present
            /\ pc[r] \notin {"idle", "gateway", "memory"}
            /\ response[r].fields = {"error"} => terminal[r] = "error"
            /\ (retrieval[r].raised \/ retrieval[r].snippets = 0) =>
                    enhanced_prompt[r] = user_input(r)

C8_Witness ==
    \E r \in Requests :
        /\ retrieval[r].raised
        /\ retrieval[r].snippets > 0
        /\ turns[r] > 0
        /\ terminal[r] = "success"

\* The place of a side effect in the order retrieval, invocation, save.
Rank(label) ==
    CASE label = "gateway" -> 0
      [] label = "strategies" -> 1
      [] label = "retrieve" -> 1
      [] label = "model" -> 2
      [] label = "save" -> 3

\* C9: the side effects of a request are ordered: every memory retrieval
\* comes before the first model round-trip, the save comes after the last
\* model event, and the save starts only once the backend run has ended.
C9_EffectsOrdered ==
    \A r \in Requests :
        /\ \A i, j \in DOMAIN log[r] :
                i < j => Rank(log[r][i]) <= Rank(log[r][j])
        /\ Count(log[r], "save") > 0 =>
                terminal[r] \in {"success", "turn_limit_exceeded"}
        /\ turns[r] > 0 => pc[r] \notin {"idle", "gateway", "memory"}
        /\ pc[r] \in {"idle", "gateway", "memory", "invoke"} =>
                /\ Count(log[r], "model") = 0
                /\ Count(log[r], "save") = 0

C9_Witness ==
    \E r \in Requests :
        /\ Count(log[r], "retrieve") = 2
        /\ Count(log[r], "model") = 1
        /\ Count(log[r], "save") = 1
        /\ turns[r] > 1
        /\ enhanced_prompt[r] # user_input(r)

\* C10: a save in flight never holds back a result that is already
\* computed: in sync mode the response has been returned, in streaming mode
\* every fragment has been emitted and only the sentinel is outstanding.
C10_SaveNeverBlocksResult ==
    \A r \in Requests :
        save_state[r] = "in_flight" =>
            IF stream(r)
            THEN emitted[r] \o <<DoneEvent>> = ExpectedStream(r)
            ELSE Returned(r)

\* The response body of the request has ended: generate() returned or an
\* exception left it.
BodyEnded(r) == generator[r] \in {"finished", "failed"}

\* C11: every streaming response body is a finite sequence of fragment
\* events ended by exactly one "data: [DONE]" sentinel, whatever the backend
\* does: the sentinel is emitted once, it is the last event, and a body
\* that has ended has it.
C11_StreamEndsWithSentinel ==
    \A r \in Requests :
        /\ \A i \in DOMAIN emitted[r] :
                emitted[r][i] = DoneEvent => i = Len(emitted[r])
        /\ BodyEnded(r) =>
                /\ emitted[r] # <<>>
                /\ emitted[r][Len(emitted[r])] = DoneEvent

\* The fragment events emitted so far, the sentinel left out.
Fragments(events) == SelectSeq(events, LAMBDA e : e # DoneEvent)

\* C12: in streaming mode the fragments are delivered in the order the
\* backend produced them, each exactly once and as soon as it is produced:
\* at every moment the fragment events emitted are the events of the
\* content chunks produced so far, in the same order.
C12_FragmentsInOrder ==
    \A r \in Requests :
        stream(r) =>
            /\ Len(Fragments(emitted[r])) = Len(produced[r])
            /\ \A i \in DOMAIN produced[r] :
                    Payload(Fragments(emitted[r])[i]) = <<produced[r][i]>>

C12_Witness ==
    \E r \in Requests :
        /\ stream(r)
        /\ pc[r] = "streaming"
        /\ produced[r] = <<"b", "a">>
        /\ Len(emitted[r]) = 2

\* C13: when the client closes a streaming response before the backend run
\* has ended, no memory save is performed for the request, no further
\* backend event is pulled and the request's event loop is released.
C13_CloseCancelsRequest ==
    /\ [](\A r \in Requests :
            generator[r] = "closed" =>
                /\ save_state[r] = "none"
                /\ Count(log[r], "save") = 0
                /\ StoredBy(r) = {}
                /\ loop[r] # "open"
                /\ DoneEvent \notin {emitted[r][i] : i \in DOMAIN emitted[r]})
    /\ [][\A r \in Requests :
            generator[r] = "closed" =>
                /\ generator'[r] = "closed"
                /\ <<turns[r], produced[r], result[r], terminal[r], log[r]>>'
                    = <<turns[r], produced[r], result[r], terminal[r],
                        log[r]>>]_vars

C13_Witness ==
    \E r \in Requests :
        /\ generator[r] = "closed"
        /\ loop[r] = "closed"
        /\ terminal[r] = "none"
        /\ produced[r] # <<>>
        /\ memory_manager[r].present
        /\ Truthy(response_text[r])

\* What the caller of the request has in hand: the HTTP response and the
\* events of its body.
View(r) == [response |-> response[r], events |-> emitted[r]]

\* The messages of a backend run that ends in success after the content
\* chunks cs with the result text t.
CompleteRun(cs, t) ==
    [i \in DOMAIN cs |-> ContentMessage(cs[i])]
    \o <<ResultMessage(t, "success")>>

\* The events generate() yields for the messages of a whole run.
RECURSIVE StreamEventsOf(_)
StreamEventsOf(msgs) ==
    IF msgs = <<>> THEN <<DoneEvent>>
    ELSE StreamYield(Head(msgs)) \o StreamEventsOf(Tail(msgs))

\* What the caller has in hand after a complete run, in either mode.
CompleteView(streaming, msgs) ==
    IF streaming
    THEN [response |-> StreamResponse, events |-> StreamEventsOf(msgs)]
    ELSE [response |-> MessageResponse(SyncTextAfter(<<>>, msgs)),
          events |-> <<>>]

ChunkSeqs == UNION {[1..n -> Chunks] : n \in 0..MaxFragments}

\* C14: when the turn budget is exhausted the request does not fail with an
\* HTTP error; it returns the partial text produced so far, if any; and the
\* caller can tell the truncated result from a complete one, in both modes:
\* what the caller receives differs from what any complete run delivers.
C14_TruncationVisible ==
    \A r \in Requests :
        (pc[r] = "done" /\ terminal[r] = "turn_limit_exceeded") =>
            /\ response[r].status = 200
            /\ response[r].fields # {"error"}
            /\ produced[r] # <<>> =>
                    IF stream(r)
                    THEN Truthy(ConcatPayloads(emitted[r]))
                    ELSE Truthy(response[r].message)
            /\ \A cs \in ChunkSeqs : \A t \in ResultTexts :
                    View(r) # CompleteView(stream(r), CompleteRun(cs, t))

\* C15: a failure raised during the invocation, in either mode, is reported
\* to the caller as a 500 whose error field is the failure's text, and it
\* stays with the request: nothing is written to the store for it.
C15_FailureReportedAs500 ==
    \A r \in Requests :
        terminal[r] = "error" =>
            /\ response[r].status = 500
            /\ response[r].fields = {"error"}
            /\ response[r].error = "backend error"
            /\ StoredBy(r) = {}

\* The prompt of the request has been built.
PromptBuilt(r) == pc[r] \notin {"idle", "gateway", "memory"}

\* C16: the prompt sent to the model is a function of the retrieved context
\* and the user text: with a non-empty context it is "Customer Context:\n",
\* the context, a blank line and the user text; with no context it is the
\* user text unchanged.
C16_PromptFromContext ==
    \A r \in Requests :
        (PromptBuilt(r) /\ Truthy(user_input(r))) =>
            LET context == retrieval[r].context
            IN  IF context # <<>>
                THEN /\ Head(enhanced_prompt[r]) = "Customer Context:\n"
                     /\ SubSeq(enhanced_prompt[r], 2, Len(context) + 1)
                            = context
                     /\ SubSeq(enhanced_prompt[r], Len(context) + 2,
                               Len(enhanced_prompt[r]))
                            = <<"\n\n">> \o user_input(r)
                ELSE enhanced_prompt[r] = user_input(r)

C16_Witness ==
    \E r \in Requests :
        /\ pc[r] \in {"sync", "streaming"}
        /\ turns[r] > 0
        /\ retrieval[r].context # <<>>
        /\ Len(enhanced_prompt[r]) > Len(retrieval[r].context) + 2

\* The event a save of the request stores: the user's own text and the
\* final assistant text, under the request's actor and session.
SavedFor(r) ==
    [memory_id |-> MEMORY_ID, actor_id |-> actor_id(r),
     session_id |-> session_id(r),
     messages |-> << [text |-> user_input(r), role |-> "USER"],
                     [text |-> result[r], role |-> "ASSISTANT"] >>]

\* C17: what a save stores is the original prompt, never the prompt with
\* the customer context, and the final assistant text, under the request's
\* own actor id and session id: a save that went through left exactly that
\* event, and the store holds no other.
C17_SaveStoresOriginal ==
    /\ \A r \in Requests :
            save_state[r] = "ok" =>
                \E i \in DOMAIN store : store[i] = SavedFor(r)
    /\ \A i \in DOMAIN store :
            \E r \in Requests :
                save_state[r] = "ok" /\ store[i] = SavedFor(r)

C17_Witness ==
    \E r \in Requests :
        /\ save_state[r] = "ok"
        /\ enhanced_prompt[r] # user_input(r)
        /\ actor_id(r) # "default_customer"
        /\ stream(r)
        /\ produced[r] # <<>>

\* The handler of the tool call was entered.
HandlerEntered == tool.phase \in {"accepted", "returned", "raised"}

\* The handler of the tool call has run to its end.
HandlerRan == tool.phase \in {"returned", "raised"}

\* C18: whatever arguments a registered handler is invoked with, a failure
\* inside it (of the search service, of the knowledge base) is caught and
\* returned as text content: no handler lets an exception reach the caller.
C18_HandlerFailuresCaught ==
    HandlerRan =>
        /\ tool.phase = "returned"
        /\ tool.reply.raised = "none"
        /\ tool.reply.type = "text"
        /\ tool.reply.text # <<>>

C18_Witness ==
    /\ tool.phase = "returned"
    /\ tool.name = "web_search"
    /\ tool.failure = "TimeoutError"
    /\ tool.reply.type = "text"

\* The argument each tool cannot do without.
RequiredArgument(name) ==
    CASE name = "get_return_policy" -> "product_category"
      [] name = "get_product_info" -> "product_type"
      [] name = "web_search" -> "keywords"
      [] name = "get_technical_support" -> "issue_description"

\* C19: a handler is entered only with arguments that passed the tool's
\* input schema: its required argument is there and is a string, the
\* optional arguments of web_search have their declared types; a call
\* naming no registered tool enters no handler, and a call that is turned
\* away ends in a lookup or validation error.
C19_ValidatedBeforeHandler ==
    /\ HandlerEntered =>
        /\ tool.name \in {"get_return_policy", "get_product_info",
                          "web_search", "get_technical_support"}
        /\ RequiredArgument(tool.name) \in tool.args.keys
        /\ tool.args.val[RequiredArgument(tool.name)].type = "string"
        /\ (tool.name = "web_search" /\ "region" \in tool.args.keys) =>
                tool.args.val["region"].type = "string"
        /\ (tool.name = "web_search" /\ "max_results" \in tool.args.keys)
                => tool.args.val["max_results"].type = "integer"
    /\ tool.phase = "rejected" =>
        tool.reply.raised \in {"UnknownToolError", "SchemaValidationError"}

C19_Witness ==
    /\ tool.phase = "rejected"
    /\ tool.name = "web_search"
    /\ tool.args.val["keywords"].type = "string"
    /\ tool.args.val["max_results"].type = "string"
    /\ tool.reply.raised = "SchemaValidationError"

\* Two names that differ in the case of their letters at most.
EqualIgnoringCase(s, t) ==
    /\ Len(s) = Len(t)
    /\ \A i \in DOMAIN s : LowerChar(s[i]) = LowerChar(t[i])

Tokens(text) == {text[i] : i \in DOMAIN text}

\* C20: get_return_policy picks the policy by the lower-cased category:
\* "smartphones", "laptops" and "accessories" in any letter case give that
\* category's policy (for laptops a text with "30 days" and "1-year
\* manufacturer warranty"), any other string gives the default policy and
\* no error.
C20_PolicyByLowerCasedCategory ==
    (tool.name = "get_return_policy" /\ HandlerRan) =>
        LET category == tool.args.val["product_category"].text
            known == {smartphones, laptops, accessories}
        IN  /\ tool.reply.raised = "none"
            /\ \A k \in known :
                    EqualIgnoringCase(category, k) =>
                        tool.reply.text
                            = PolicyText(category, return_policies(k))
            /\ EqualIgnoringCase(category, laptops) =>
                    /\ "30 days" \in Tokens(tool.reply.text)
                    /\ "1-year manufacturer warranty"
                            \in Tokens(tool.reply.text)
                    /\ ", extended options available"
                            \in Tokens(tool.reply.text)
            /\ (\A k \in known : ~EqualIgnoringCase(category, k)) =>
                    tool.reply.text = PolicyText(category, default_policy)

C20_Witness ==
    /\ tool.phase = "returned"
    /\ tool.name = "get_return_policy"
    /\ tool.args.val["product_category"].text
            = <<"L", "a", "P", "t", "O", "p", "S">>
    /\ "Free return shipping with original packaging"
            \in Tokens(tool.reply.text)

C22_HealthAlwaysHealthy ==
    /\ [](ENABLED Ping)
    /\ [](health # NoProbe =>
            /\ health.status = 200
            /\ health.body = {<<"status", "healthy">>})
    /\ [][health' # health =>
            UNCHANGED <<MEMORY_ID, pc, body, mcp_servers, memory_manager,
                        enhanced_prompt, turns, terminal, produced, result,
                        response_text, emitted, response, log, retrieval,
                        store, save_state, generator, loop, tool>>]_vars

C22_Witness ==
    /\ health.status = 200
    /\ health.during = "failed"
    /\ \E r \in Requests : pc[r] = "aborted"

\* C23: save_interaction calls the store if and only if the user text and
\* the assistant text are both non-empty, and a call that goes through
\* appends exactly that USER/ASSISTANT pair; with an empty text the store is
\* left alone; and whatever happens, a raise of the store included,
\* save_interaction returns without raising.
C23_SaveInteractionGuarded ==
    save_call.called =>
        LET both == save_call.user_query # <<>>
                    /\ save_call.agent_response # <<>>
        IN  /\ save_call.store_called <=> both
            /\ ~save_call.raised
            /\ IF both /\ ~save_call.store_raised
               THEN /\ Len(store) = save_call.before + 1
                    /\ store[Len(store)].messages =
                        << [text |-> save_call.user_query, role |-> "USER"],
                           [text |-> save_call.agent_response,
                            role |-> "ASSISTANT"] >>
               ELSE Len(store) = save_call.before

C23_Witness ==
    /\ save_call.called
    /\ save_call.user_query # <<>>
    /\ save_call.agent_response = <<>>
    /\ ~save_call.store_called
    /\ Len(store) = 2


\* C24: requests served at once share no mutable state. Whatever the
\* interleaving, the gateway entry of a request's own tool-server set
\* carries that request's bearer credential, its memory manager and the
\* retrievals it issues carry its own actor and session ids, every stored
\* event pairs the ids, the query and the answer of one single request, and
\* the shared in-process server is the only other entry of each set.
C24_RequestsIsolated ==
    /\ \A r \in Requests :
        /\ \A server \in mcp_servers[r] :
            \/ server = sdk_server
            \/ /\ server.name = "agentcore-gateway"
               /\ server.token = auth_header(r)
        /\ memory_manager[r].present =>
            /\ memory_manager[r].actor_id = actor_id(r)
            /\ memory_manager[r].session_id = session_id(r)
        /\ \A i \in DOMAIN retrieval[r].queries :
            /\ retrieval[r].queries[i].namespace =
                Format(Strategies[i].namespace, actor_id(r))
            /\ retrieval[r].queries[i].query = user_input(r)
        /\ \A q \in Requests \ {r} :
            /\ \A server \in mcp_servers[r] :
                \A i \in DOMAIN server.token :
                    server.token[i] # "tok-" \o q
            /\ memory_manager[r].actor_id # "actor-" \o q
            /\ memory_manager[r].session_id # "session-" \o q
            /\ \A i \in DOMAIN retrieval[r].queries :
                \A j \in DOMAIN retrieval[r].queries[i].namespace :
                    retrieval[r].queries[i].namespace[j] # "actor-" \o q
    /\ \A i \in DOMAIN store :
        \E r \in Requests :
            /\ memory_manager[r].present
            /\ store[i] = InteractionEvent(memory_manager[r],
                                           user_input(r), response_text[r])
            /\ store[i].actor_id = actor_id(r)
            /\ store[i].session_id = session_id(r)

\* Both requests are in the middle of their save at once, each with its
\* own gateway entry, and each has queried the memory service.
C24_Witness ==
    \A r \in Requests :
        /\ save_state[r] = "in_flight"
        /\ Cardinality(mcp_servers[r]) = 2
        /\ Len(retrieval[r].queries) = 2


\* C25: the strategies of the memory resource are looked up at most once,
\* however many requests are served: the lookups of all requests together
\* number at most one.
C25_StrategiesFetchedOnce ==
    Count(log["r1"], "strategies") + Count(log["r2"], "strategies") <= 1


\* The memories of a ranked answer that carry a non-blank text, in rank
\* order, and the lines the claim expects for namespace i of the call.
KeptMemories(memories) == SelectSeq(memories, Usable)

ExpectedLinesOf(i) ==
    LET kept == KeptMemories(context_call.answers[i].memories)
    IN  [j \in 1..Len(kept) |->
            <<"[", Upper(Strategies[i].type), "] ">> \o Strip(kept[j].text)]

RECURSIVE ExpectedLines(_)
ExpectedLines(n) ==
    IF n = 0 THEN <<>> ELSE ExpectedLines(n - 1) \o ExpectedLinesOf(n)

\* The number of lines of a context tagged with a label.
LinesTagged(context, label) ==
    Cardinality({k \in 1..(Len(context) - 1) :
                    context[k] = "[" /\ context[k + 1] = label})

\* What the claim says of the queries and of the returned text.
QueriesEveryNamespace ==
    /\ Len(context_call.queries) = Len(Strategies)
    /\ \A i \in DOMAIN Strategies :
        /\ context_call.queries[i].namespace =
            Format(Strategies[i].namespace, context_call.actor_id)
        /\ context_call.queries[i].query = context_call.query_text
        /\ context_call.queries[i].top_k = 3

ReturnsTaggedSnippets ==
    /\ context_call.context = Join(ExpectedLines(Len(Strategies)))
    /\ \A i \in DOMAIN Strategies :
        LinesTagged(context_call.context, Upper(Strategies[i].type)) <= 3
    /\ \A r \in Requests :
        "actor-" \o r # context_call.actor_id =>
            \A i \in DOMAIN context_call.queries :
                \A j \in DOMAIN context_call.queries[i].namespace :
                    context_call.queries[i].namespace[j] # "actor-" \o r

GatewayConfigured(r) ==
    pc[r] \notin {"idle", "gateway"} /\ Truthy(user_input(r))

HasGateway(r) ==
    \E server \in mcp_servers[r] : server.name = "agentcore-gateway"

\* A credential came and resolving the gateway raised.
GatewayFailed(r) ==
    GatewayConfigured(r) /\ Truthy(auth_header(r)) /\ ~HasGateway(r)

\* C27: the gateway is part of a request's tool servers only when the
\* request carries a non-empty Authorization header (without one it is not
\* even resolved), and a failure to resolve it is not fatal: the request
\* goes on with the in-process server alone, no response is made at that
\* point, and an error answer, if one comes later, is the backend's.
C27_GatewayOptional ==
    \A r \in Requests :
        GatewayConfigured(r) =>
            /\ sdk_server \in mcp_servers[r]
            /\ HasGateway(r) => Truthy(auth_header(r))
            /\ ~Truthy(auth_header(r)) => Count(log[r], "gateway") = 0
            /\ GatewayFailed(r) =>
                /\ mcp_servers[r] = {sdk_server}
                /\ pc[r] \in {"memory", "invoke"} => response[r] = NoResponse
                /\ response[r].error # "none" => terminal[r] = "error"

\* Resolving the gateway failed and the request was answered 200 with the
\* model's text.
C27_Witness ==
    /\ GatewayFailed("r1")
    /\ Count(log["r1"], "gateway") = 1
    /\ response["r1"].status = 200
    /\ response["r1"].fields = {"message"}
    /\ response["r1"].message # <<>>


\* The handler is past the point where it decides on the save
\* (app.py 151-152, 191-192).
SaveDecided(r) ==
    \/ pc[r] \in {"sync_saving", "sync_return", "stream_saving",
                  "stream_done"}
    \/ pc[r] = "done" /\ response[r].fields = {"message"}
    \/ pc[r] = "done" /\ generator[r] = "finished"

\* C28: a request with no memory manager (no memory id is configured, or
\* constructing the manager raised while fetching the strategies) still
\* invokes the model, with the user's prompt unmodified, and attempts no
\* save; a request whose manager was constructed and whose retrieval
\* returned nothing sends the prompt unmodified too and keeps its save: the
\* save is attempted once the run has ended with a non-empty final text.
C28_MemoryOptional ==
    \A r \in Requests :
        (PromptBuilt(r) /\ Truthy(user_input(r))) =>
            /\ memory_manager[r].present <=>
                (MEMORY_ID # None /\ retrieval[r].called)
            /\ ~memory_manager[r].present =>
                /\ enhanced_prompt[r] = user_input(r)
                /\ Count(log[r], "save") = 0
                /\ StoredBy(r) = {}
                /\ save_state[r] = "none"
                /\ SaveDecided(r) => Count(log[r], "model") >= 1
            /\ (memory_manager[r].present /\ retrieval[r].context = <<>>) =>
                /\ enhanced_prompt[r] = user_input(r)
                /\ SaveDecided(r) => Count(log[r], "model") >= 1
                /\ SaveDecided(r) =>
                    (Count(log[r], "save") = 1
                        <=> Truthy(response_text[r]))

\* A memory id is configured, constructing the manager raised, and the
\* request was answered with the model's text without a save.
C28_Witness ==
    /\ MEMORY_ID # None
    /\ Count(log["r1"], "strategies") = 1
    /\ ~memory_manager["r1"].present
    /\ response["r1"].fields = {"message"}
    /\ response["r1"].message # <<>>
    /\ Count(log["r1"], "save") = 0


\* C29: for one and the same run of the backend ending in a terminal
\* result, the assistant text handed to the save is the same in both modes:
\* in streaming mode as in sync mode it is what _sync_response's loop
\* computes from the run's messages, that is the text of the terminal
\* result, whatever fragments were streamed before; so the save is attempted
\* for the same runs and a stored event carries that text.
C29_SaveTextSameInBothModes ==
    \A r \in Requests :
        terminal[r] \in {"success", "turn_limit_exceeded"} =>
            /\ response_text[r] = SyncMessageFor(r)
            /\ response_text[r] = result[r]
            /\ pc[r] \notin {"sync_save", "stream_save"} =>
                (Count(log[r], "save") = 1
                    <=> (memory_manager[r].present
                         /\ Truthy(SyncMessageFor(r))))
            /\ \A i \in StoredBy(r) :
                store[i].messages[2].text = SyncMessageFor(r)

\* A streaming request streamed two fragments, the terminal result carried
\* another text, and that text is what was stored.
C29_Witness ==
    /\ stream("r1")
    /\ produced["r1"] = <<"b", "a">>
    /\ result["r1"] = <<"a">>
    /\ save_state["r1"] = "ok"
    /\ \E i \in StoredBy("r1") : store[i].messages[2].text = <<"a">>


\* The data events of the content messages of the request's run, one per
\* message, in order.
ContentEvents(r) == [i \in DOMAIN produced[r] |-> Data(<<produced[r][i]>>)]

\* C30: in streaming mode the events emitted are exactly the data events of
\* the backend messages that carry content, one per message; the terminal
\* result adds no event, its text only becomes the text kept for the save;
\* and a run that produced nothing but a terminal result gives a body made
\* of the sentinel alone.
C30_OnlyContentEmitted ==
    \A r \in Requests :
        stream(r) =>
            /\ Fragments(emitted[r]) = ContentEvents(r)
            /\ Len(emitted[r]) =
                Len(produced[r])
                + (IF generator[r] = "finished" THEN 1 ELSE 0)
            /\ terminal[r] \in {"success", "turn_limit_exceeded"} =>
                /\ response_text[r] = result[r]
                /\ ConcatPayloads(emitted[r]) = produced[r]
            /\ (generator[r] = "finished" /\ produced[r] = <<>>) =>
                emitted[r] = <<DoneEvent>>

\* The run produced one message only, a terminal result with a text; the
\* body that ended holds the sentinel and nothing else.
C30_Witness ==
    /\ stream("r1")
    /\ generator["r1"] = "finished"
    /\ turns["r1"] = 1
    /\ result["r1"] = <<"a", "b">>
    /\ response_text["r1"] = <<"a", "b">>
    /\ emitted["r1"] = <<DoneEvent>>

====
